---- MODULE Spec2Model ----
(***************************************************************************)
(* A model of skyhook's contract gates:                                    *)
(*   - skyhook/function.py : Lambda.wrap / validate / validate_return      *)
(*   - skyhook/message.py  : MessengerLambda.wraps and the SNS/SQS         *)
(*                           extraction of messages from an event          *)
(* JSON values are records [kind, repr]; JSON schemas are records          *)
(* [keyword, kind, repr] (the operand of the keyword).                     *)
(***************************************************************************)
EXTENDS Integers, Sequences, FiniteSets, TLC

\* ------------------------------------------------------------------ bounds
\* longest event mapping (number of fields) handed to a function entry point
MaxEventLen == 3
\* longest Records list of a delivery event
MaxRecords == 3

\* ------------------------------------------------------------- JSON values
Str(s) == [kind |-> "string", repr |-> s]
Num(s) == [kind |-> "number", repr |-> s]
Arr(s) == [kind |-> "array", repr |-> s]
\* Python's None (JSON null)
NoneValue == [kind |-> "null", repr |-> "None"]

\* ------------------------------------------------------------ JSON schemas
SchemaConst(v) == [keyword |-> "const", kind |-> v.kind, repr |-> v.repr]
SchemaType(t) == [keyword |-> "type", kind |-> t, repr |-> ""]
\* Function.return_ = None, the value Function.__init__ gives it
NoReturn == [keyword |-> "None", kind |-> "", repr |-> ""]

\* mutant: a validator that accepts every instance
is_valid_accept_all(schema, instance) == TRUE

\* Draft7Validator(schema).validate(instance) raises no ValidationError
is_valid(schema, instance) ==
    CASE schema.keyword = "const" ->
            instance.kind = schema.kind /\ instance.repr = schema.repr
      [] schema.keyword = "type" -> instance.kind = schema.kind
      [] OTHER -> FALSE

\* --------------------------------------------------- the declared service
Argument(name, schema) == [name |-> name, schema |-> schema]

\* the functions a service under test declares: arguments in declaration
\* order (Function._arguments is an insertion-ordered dict) and return_
Functions ==
    { [name |-> "test",
       arguments |-> << Argument("foo", SchemaConst(Str("bar"))),
                        Argument("spam", SchemaType("string")) >>,
       return_ |-> SchemaType("number")],
      [name |-> "command",
       arguments |-> << Argument("foo", SchemaConst(Str("bar"))),
                        Argument("spam", SchemaType("string")) >>,
       return_ |-> NoReturn],
      [name |-> "query",
       arguments |-> << Argument("spam", SchemaType("number")) >>,
       return_ |-> SchemaConst(Str("bar"))] }

\* the schema of the declared message
MessageSchemas == { SchemaType("string") }

\* ------------------------------------------------------------- the inputs
Keys == {"foo", "spam", "up", "down"}
EventValues == {Str("bar"), Str("eggs"), Num("100")}
\* what an implementation may return
ReturnValues == {Num("500"), Str("not number"), Str("bar"), NoneValue}

Field(k, v) == [key |-> k, value |-> v]

\* a dict is a sequence of fields with distinct keys, in insertion order
IsDict(items) ==
    \A i, j \in 1..Len(items) : items[i].key = items[j].key => i = j

SeqsUpTo(S, n) == UNION { [1..m -> S] : m \in 0..n }

\* events: mappings, and one value that is no mapping at all
Events ==
    { [isdict |-> TRUE, items |-> it] :
        it \in { s \in SeqsUpTo({Field(k, v) : k \in Keys, v \in EventValues},
                                MaxEventLen) : IsDict(s) } }
    \cup { [isdict |-> FALSE, items |-> << >>] }

HasKey(event, k) == \E i \in 1..Len(event.items) : event.items[i].key = k
Get(event, k) ==
    event.items[CHOOSE i \in 1..Len(event.items) : event.items[i].key = k].value
KeysOf(event) == { event.items[i].key : i \in 1..Len(event.items) }

ArgumentNames(f) == { f.arguments[i].name : i \in 1..Len(f.arguments) }

VARIABLES
    function,      \* Lambda._function: the declared function being wrapped
    fpc,           \* where the function entry point is
    event,         \* the event of the current call
    implCalls,     \* invocations of callable_ in the current call
    implArgs,      \* positional arguments callable_ was invoked with
    implReturn,    \* what callable_ returned, or validate_return was given
    ftrace,        \* steps of lambda_guard taken in the current call, in order
    foutcome,      \* how the current call ended
    fresult        \* what the current call returned

fvars == << function, fpc, event, implCalls, implArgs, implReturn, ftrace,
            foutcome, fresult >>

VARIABLES
    messageSchema, \* Messenger._message.schema
    mpc,           \* where the message entry point is
    batched,       \* the batched flag the entry point was wrapped with
    envelope,      \* the event of the current call
    messages,      \* the messages extracted from the event
    nextIndex,     \* per-message mode: index of the message being handled
    handledOne,    \* per-message mode: the messages callable_ was invoked with
    handledBatch,  \* batched mode: the sequences callable_ was invoked with
    completed,     \* invocations of callable_ that returned normally
    moutcome       \* how the current call ended

mvars == << messageSchema, mpc, batched, envelope, messages, nextIndex,
            handledOne, handledBatch, completed, moutcome >>

VARIABLES
    svcTypes,      \* Service._types: name -> Type, in insertion order
    svcFunctions,  \* Service._functions: name -> Function, in insertion order
    svcMessages,   \* Service._messages: name -> Message, in insertion order
    lastOp         \* the last operation called on the service and how it ended

svars == << svcTypes, svcFunctions, svcMessages, lastOp >>

VARIABLES
    pkgPc,             \* where the generation of a Package is
    pkgTypeNames,      \* the names of the types of Package._service
    typesDone,         \* the types _generate_types has compiled
    functionsDone,     \* the functions _generate_functions has compiled
    typesPreamble,     \* names the preamble of the types module assigns
    functionsPreamble, \* names the preamble of the functions module assigns
    lastUnit           \* the type or function compiled last, and the outcome

cvars == << pkgPc, pkgTypeNames, typesDone, functionsDone, typesPreamble,
            functionsPreamble, lastUnit >>

VARIABLES
    stacks,        \* per call chain, the hooks of the bind() scopes now open
    hookOp,        \* the last operation of the hook runtime and its outcome
    bindings,      \* per hook and name, the local and the remote binding
    lastCall       \* the last call or send, what it invoked and its outcome

hvars == << stacks, hookOp, bindings, lastCall >>

vars == << fvars, mvars, svars, cvars, hvars >>

\* what the actions of one component leave alone
notF == << mvars, svars, cvars, hvars >>
notM == << fvars, svars, cvars, hvars >>
notS == << fvars, mvars, cvars, hvars >>
notC == << fvars, mvars, svars, hvars >>
notH == << fvars, mvars, svars, cvars >>

NoEvent == [isdict |-> FALSE, items |-> << >>]

\* ------------------------------------------------------- skyhook/function.py

\* mutant: the event schema without "additionalProperties": False
Lambda_validate_open(f, e) ==
    /\ e.isdict
    /\ \A i \in 1..Len(f.arguments) :
          /\ HasKey(e, f.arguments[i].name)
          /\ is_valid(f.arguments[i].schema, Get(e, f.arguments[i].name))

\* Lambda.validate(event) raises no ContractError:
\* {"type": "object", "properties": {name: schema}, "required": [names],
\*  "additionalProperties": False}
Lambda_validate(f, e) ==
    /\ e.isdict
    /\ \A i \in 1..Len(f.arguments) : HasKey(e, f.arguments[i].name)
    /\ KeysOf(e) \subseteq ArgumentNames(f)
    /\ \A i \in 1..Len(f.arguments) :
          HasKey(e, f.arguments[i].name)
             => is_valid(f.arguments[i].schema, Get(e, f.arguments[i].name))

\* mutant: binds the event's values to the parameters by position
signature_bind_positional(f, e) ==
    [i \in 1..Len(f.arguments) |-> e.items[i].value]

\* Function.signature.bind(**event).args: the values in declaration order,
\* each taken from the event field named like the parameter
signature_bind(f, e) ==
    [i \in 1..Len(f.arguments) |-> Get(e, f.arguments[i].name)]

\* Lambda.validate_return(return_) raises no ContractError
Lambda_validate_return(f, v) == is_valid(f.return_, v)

FInit ==
    /\ function \in Functions
    /\ fpc = "idle"
    /\ event = NoEvent
    /\ implCalls = 0
    /\ implArgs = << >>
    /\ implReturn = NoneValue
    /\ ftrace = << >>
    /\ foutcome = "none"
    /\ fresult = NoneValue

\* lambda_guard(event, context) up to the invocation of callable_
lambda_guard_enter(e) ==
    /\ UNCHANGED notF
    /\ fpc = "idle"
    /\ event' = e
    /\ IF Lambda_validate(function, e)
       THEN /\ implArgs' = signature_bind(function, e)
            /\ implCalls' = implCalls + 1
            /\ ftrace' = << "validate", "bind", "callable_" >>
            /\ fpc' = "callable_"
            /\ foutcome' = "none"
       ELSE /\ ftrace' = << "validate" >>
            /\ fpc' = "done"
            /\ foutcome' = "ContractError"
            /\ UNCHANGED << implArgs, implCalls >>
    /\ UNCHANGED << function, implReturn, fresult >>

\* mutant: the result is returned without the return guard
guard_return_unchecked(v) ==
    /\ UNCHANGED notF
    /\ fpc = "callable_"
    /\ fpc' = "done"
    /\ foutcome' = "returned"
    /\ fresult' = v
    /\ ftrace' = ftrace
    /\ implReturn' = v
    /\ UNCHANGED << function, event, implCalls, implArgs >>

\* mutant: the result is propagated although no Return is declared
guard_return_propagates(v) ==
    /\ UNCHANGED notF
    /\ fpc = "callable_"
    /\ fpc' = "done"
    /\ IF function.return_ # NoReturn /\ ~Lambda_validate_return(function, v)
       THEN /\ ftrace' = Append(ftrace, "validate_return")
            /\ foutcome' = "ContractError"
            /\ fresult' = fresult
       ELSE /\ ftrace' = IF function.return_ # NoReturn
                         THEN Append(ftrace, "validate_return") ELSE ftrace
            /\ foutcome' = "returned"
            /\ fresult' = v
    /\ implReturn' = v
    /\ UNCHANGED << function, event, implCalls, implArgs >>

\* callable_ returns v and lambda_guard runs to its end
lambda_guard_return(v) ==
    /\ UNCHANGED notF
    /\ fpc = "callable_"
    /\ fpc' = "done"
    /\ IF function.return_ # NoReturn
       THEN /\ ftrace' = Append(ftrace, "validate_return")
            /\ IF Lambda_validate_return(function, v)
               THEN foutcome' = "returned" /\ fresult' = v
               ELSE foutcome' = "ContractError" /\ fresult' = fresult
       ELSE /\ ftrace' = ftrace
            /\ foutcome' = "returned"
            /\ fresult' = NoneValue
    /\ implReturn' = v
    /\ UNCHANGED << function, event, implCalls, implArgs >>

\* callable_ raises: nothing in lambda_guard catches it
lambda_guard_raise ==
    /\ UNCHANGED notF
    /\ fpc = "callable_"
    /\ fpc' = "done"
    /\ foutcome' = "RuntimeError"
    /\ UNCHANGED << function, event, implCalls, implArgs, implReturn, ftrace,
                    fresult >>

\* how a call of Lambda.validate_return(return_) ends: reading .schema of
\* the return_ None of a function without Return raises AttributeError
validate_return_outcome(f, return_) ==
    IF f.return_ = NoReturn THEN "AttributeError"
    ELSE IF Lambda_validate_return(f, return_) THEN "returned"
    ELSE "ContractError"

\* Lambda.validate_return(return_) called on its own, outside lambda_guard;
\* implReturn holds the value given
validate_return(return_) ==
    /\ UNCHANGED notF
    /\ fpc = "idle"
    /\ fpc' = "done"
    /\ ftrace' = << >>
    /\ implReturn' = return_
    /\ foutcome' = validate_return_outcome(function, return_)
    /\ fresult' = NoneValue
    /\ UNCHANGED << function, event, implCalls, implArgs >>

\* the entry point is called again: a new invocation starts afresh
lambda_guard_again ==
    /\ UNCHANGED notF
    /\ fpc = "done"
    /\ fpc' = "idle"
    /\ event' = NoEvent
    /\ implCalls' = 0
    /\ implArgs' = << >>
    /\ implReturn' = NoneValue
    /\ ftrace' = << >>
    /\ foutcome' = "none"
    /\ fresult' = NoneValue
    /\ UNCHANGED function

\* -------------------------------------------------------- skyhook/message.py
\* record.get(key) of a record that has no such key
Absent == "<absent>"

\* the texts a record may carry as its payload
ValidTexts == {"\"bar\"", "\"baz\""}
Texts == ValidTexts \cup {"[\"not a string\"]", "{oops"}

\* json.loads(text): the decoded value, or JSONDecodeError
json_loads(text) ==
    CASE text = "\"bar\"" -> [ok |-> TRUE, value |-> Str("bar")]
      [] text = "\"baz\"" -> [ok |-> TRUE, value |-> Str("baz")]
      [] text = "[\"not a string\"]" -> [ok |-> TRUE, value |-> Arr("not a string")]
      [] OTHER -> [ok |-> FALSE, value |-> NoneValue]

\* a record of event["Records"]: the SNS tag lives under "EventSource" with
\* the payload under ["Sns"]["Message"], the SQS tag under "eventSource"
\* with the payload under "body"
Record(sns, sqs, message, body) ==
    [EventSource |-> sns, eventSource |-> sqs, Message |-> message, body |-> body]

RecordValues ==
    { Record("aws:sns", Absent, t, Absent) : t \in Texts }
    \cup { Record(Absent, "aws:sqs", Absent, t) : t \in Texts }
    \cup { Record("aws:sns", "aws:sqs", "\"bar\"", "\"baz\"") }
    \cup { Record("aws:s3", Absent, Absent, Absent),
           Record(Absent, "aws:kinesis", Absent, "\"bar\"") }

\* delivery events: no mapping at all, a mapping without "Records" (only
\* unrelated keys), a mapping with a "Records" list
Envelopes ==
    { [isdict |-> FALSE, hasRecords |-> FALSE, Records |-> << >>],
      [isdict |-> TRUE, hasRecords |-> FALSE, Records |-> << >>] }
    \cup { [isdict |-> TRUE, hasRecords |-> TRUE, Records |-> rs] :
             rs \in SeqsUpTo(RecordValues, MaxRecords) }

NoEnvelope == [isdict |-> FALSE, hasRecords |-> FALSE, Records |-> << >>]

Extracted(ms) == [raised |-> FALSE, messages |-> ms]
ContractErrorRaised == [raised |-> TRUE, messages |-> << >>]

\* Messenger.validate(message) raises no ContractError
Messenger_validate(schema, message) == is_valid(schema, message)

\* the loop of _messages_from_sns over records[i..], acc the messages so far
RECURSIVE sns_loop(_, _, _, _)
sns_loop(schema, records, i, acc) ==
    IF i > Len(records) THEN Extracted(acc)
    ELSE IF records[i].EventSource = "aws:sns"
         THEN LET decoded == json_loads(records[i].Message)
              IN  IF ~decoded.ok THEN ContractErrorRaised
                  ELSE IF ~Messenger_validate(schema, decoded.value)
                       THEN ContractErrorRaised
                       ELSE sns_loop(schema, records, i + 1,
                                     Append(acc, decoded.value))
         ELSE sns_loop(schema, records, i + 1, acc)

\* mutant: an event without "Records" is a contract violation
messages_from_sns_strict(schema, ev) ==
    IF ~ev.isdict \/ ~ev.hasRecords THEN ContractErrorRaised
    ELSE sns_loop(schema, ev.Records, 1, << >>)

\* MessengerLambda._messages_from_sns(event)
messages_from_sns(schema, ev) ==
    IF ~ev.isdict THEN Extracted(<< >>)
    ELSE IF ev.hasRecords THEN sns_loop(schema, ev.Records, 1, << >>)
         ELSE Extracted(<< >>)

\* mutant: a record whose payload does not decode or validate is skipped
RECURSIVE sqs_loop_skip_invalid(_, _, _, _)
sqs_loop_skip_invalid(schema, records, i, acc) ==
    IF i > Len(records) THEN Extracted(acc)
    ELSE IF records[i].eventSource = "aws:sqs"
         THEN LET decoded == json_loads(records[i].body)
              IN  IF ~decoded.ok \/ ~Messenger_validate(schema, decoded.value)
                  THEN sqs_loop_skip_invalid(schema, records, i + 1, acc)
                  ELSE sqs_loop_skip_invalid(schema, records, i + 1,
                                             Append(acc, decoded.value))
         ELSE sqs_loop_skip_invalid(schema, records, i + 1, acc)

\* the loop of _messages_from_sqs over records[i..], acc the messages so far
RECURSIVE sqs_loop(_, _, _, _)
sqs_loop(schema, records, i, acc) ==
    IF i > Len(records) THEN Extracted(acc)
    ELSE IF records[i].eventSource = "aws:sqs"
         THEN LET decoded == json_loads(records[i].body)
              IN  IF ~decoded.ok THEN ContractErrorRaised
                  ELSE IF ~Messenger_validate(schema, decoded.value)
                       THEN ContractErrorRaised
                       ELSE sqs_loop(schema, records, i + 1,
                                     Append(acc, decoded.value))
         ELSE sqs_loop(schema, records, i + 1, acc)

\* MessengerLambda._messages_from_sqs(event)
messages_from_sqs(schema, ev) ==
    IF ~ev.isdict THEN Extracted(<< >>)
    ELSE IF ev.hasRecords THEN sqs_loop(schema, ev.Records, 1, << >>)
         ELSE Extracted(<< >>)

\* mutant: the SQS messages come before the SNS messages
extract_messages_sqs_first(schema, ev) ==
    LET sns == messages_from_sns(schema, ev)
    IN  IF sns.raised THEN ContractErrorRaised
        ELSE LET sqs == messages_from_sqs(schema, ev)
             IN  IF sqs.raised THEN ContractErrorRaised
                 ELSE Extracted(sqs.messages \o sns.messages)

\* self._messages_from_sns(event) + self._messages_from_sqs(event): the
\* first of the two to raise ends the call
extract_messages(schema, ev) ==
    LET sns == messages_from_sns(schema, ev)
    IN  IF sns.raised THEN ContractErrorRaised
        ELSE LET sqs == messages_from_sqs(schema, ev)
             IN  IF sqs.raised THEN ContractErrorRaised
                 ELSE Extracted(sns.messages \o sqs.messages)

\* mutant: batched mode invokes callable_ once per message
batch_calls_per_message(ms) == [i \in 1..Len(ms) |-> << ms[i] >>]

\* batched mode: the arguments of the invocations of callable_ made for the
\* extracted messages: callable_(messages), once
batch_calls(ms) == << ms >>

MInit ==
    /\ messageSchema \in MessageSchemas
    /\ mpc = "idle"
    /\ batched = FALSE
    /\ envelope = NoEnvelope
    /\ messages = << >>
    /\ nextIndex = 0
    /\ handledOne = << >>
    /\ handledBatch = << >>
    /\ completed = 0
    /\ moutcome = "none"

\* MessengerLambda.wraps(callable_, batched=b).lambda_guard(event, context)
\* up to the first invocation of callable_
messenger_guard_enter(ev, b) ==
    /\ UNCHANGED notM
    /\ mpc = "idle"
    /\ envelope' = ev
    /\ batched' = b
    /\ LET got == extract_messages(messageSchema, ev)
       IN  IF got.raised
           THEN /\ moutcome' = "ContractError"
                /\ mpc' = "done"
                /\ UNCHANGED << messages, nextIndex, handledOne, handledBatch >>
           ELSE /\ messages' = got.messages
                /\ IF b
                   THEN /\ handledBatch' = handledBatch \o batch_calls(got.messages)
                        /\ mpc' = "callable_"
                        /\ moutcome' = "none"
                        /\ UNCHANGED << nextIndex, handledOne >>
                   ELSE IF Len(got.messages) = 0
                        THEN /\ mpc' = "done"
                             /\ moutcome' = "returned"
                             /\ UNCHANGED << nextIndex, handledOne, handledBatch >>
                        ELSE /\ nextIndex' = 1
                             /\ handledOne' = Append(handledOne, got.messages[1])
                             /\ mpc' = "callable_"
                             /\ moutcome' = "none"
                             /\ UNCHANGED handledBatch
    /\ UNCHANGED << messageSchema, completed >>

\* callable_ returns: the for loop goes on to the next message, or the
\* guard returns
handler_return ==
    /\ UNCHANGED notM
    /\ mpc = "callable_"
    /\ completed' = completed + 1
    /\ IF ~batched /\ nextIndex < Len(messages)
       THEN /\ nextIndex' = nextIndex + 1
            /\ handledOne' = Append(handledOne, messages[nextIndex + 1])
            /\ UNCHANGED << mpc, moutcome >>
       ELSE /\ mpc' = "done"
            /\ moutcome' = "returned"
            /\ UNCHANGED << nextIndex, handledOne >>
    /\ UNCHANGED << messageSchema, batched, envelope, messages, handledBatch >>

\* mutant: the exception of callable_ is swallowed and the loop goes on
handler_raise_swallowed ==
    /\ UNCHANGED notM
    /\ mpc = "callable_"
    /\ IF ~batched /\ nextIndex < Len(messages)
       THEN /\ nextIndex' = nextIndex + 1
            /\ handledOne' = Append(handledOne, messages[nextIndex + 1])
            /\ UNCHANGED << mpc, moutcome >>
       ELSE /\ mpc' = "done"
            /\ moutcome' = "returned"
            /\ UNCHANGED << nextIndex, handledOne >>
    /\ UNCHANGED << messageSchema, batched, envelope, messages, handledBatch,
                    completed >>

\* callable_ raises: nothing in lambda_guard catches it, the call ends
handler_raise ==
    /\ UNCHANGED notM
    /\ mpc = "callable_"
    /\ mpc' = "done"
    /\ moutcome' = "RuntimeError"
    /\ UNCHANGED << messageSchema, batched, envelope, messages, nextIndex,
                    handledOne, handledBatch, completed >>

\* the entry point is called again: a new invocation starts afresh
messenger_guard_again ==
    /\ UNCHANGED notM
    /\ mpc = "done"
    /\ mpc' = "idle"
    /\ batched' = FALSE
    /\ envelope' = NoEnvelope
    /\ messages' = << >>
    /\ nextIndex' = 0
    /\ handledOne' = << >>
    /\ handledBatch' = << >>
    /\ completed' = 0
    /\ moutcome' = "none"
    /\ UNCHANGED messageSchema

\* -------------------------------------------------------- skyhook/service.py
\* names are strings, modelled as sequences of characters
SvcNames == { << "a" >>, << "b" >> }
Descriptions == {"first", "second"}
TypeSchemas == { SchemaType("string"), SchemaType("number") }
\* most entities a service holds (types, functions, arguments, messages)
MaxEntities == 3

\* Type, Message and Argument: name, description, schema
Entity(name, description, schema) ==
    [name |-> name, description |-> description, schema |-> schema]
\* Function.__init__: no arguments yet
NewFunction(name, description) ==
    [name |-> name, description |-> description, arguments |-> << >>]

\* name in dict
Has(dict, name) == \E i \in 1..Len(dict) : dict[i].name = name
\* dict[name]
Lookup(dict, name) == dict[CHOOSE i \in 1..Len(dict) : dict[i].name = name]
\* dict[entity.name] = entity: a new key goes last, an old key keeps its place
dict_set(dict, entity) ==
    IF Has(dict, entity.name)
    THEN [i \in 1..Len(dict) |->
             IF dict[i].name = entity.name THEN entity ELSE dict[i]]
    ELSE Append(dict, entity)
DictNames(dict) == { dict[i].name : i \in 1..Len(dict) }

RECURSIVE SumArguments(_)
SumArguments(fs) ==
    IF fs = << >> THEN 0 ELSE Len(Head(fs).arguments) + SumArguments(Tail(fs))
\* the number of entities the service holds
Entities ==
    Len(svcTypes) + Len(svcFunctions) + Len(svcMessages)
        + SumArguments(svcFunctions)

\* what a resolver returns: a schema, or a str such as the referrer "..."
NoDocument == [keyword |-> "", kind |-> "", repr |-> ""]

\* an operation on the service and its outcome: raised is the exception's name
\* ("" when the call returned), result the document a resolve call returned
Op(op, owner, name, description, raised) ==
    [op |-> op, owner |-> owner, name |-> name, description |-> description,
     raised |-> raised, result |-> NoDocument]

SInit ==
    /\ svcTypes = << >>
    /\ svcFunctions = << >>
    /\ svcMessages = << >>
    /\ lastOp = Op("none", << >>, << >>, "", "")

\* mutant: the declaration replaces a type already declared
declare_type_overwrite(type_) ==
    /\ UNCHANGED notS
    /\ svcTypes' = dict_set(svcTypes, type_)
    /\ lastOp' = Op("declare_type", << >>, type_.name, type_.description, "")
    /\ UNCHANGED << svcFunctions, svcMessages >>

\* Service.declare_type(type_)
declare_type(type_) ==
    /\ UNCHANGED notS
    /\ IF Has(svcTypes, type_.name)
       THEN /\ lastOp' = Op("declare_type", << >>, type_.name,
                            type_.description, "ValueError")
            /\ UNCHANGED svcTypes
       ELSE /\ svcTypes' = dict_set(svcTypes, type_)
            /\ lastOp' = Op("declare_type", << >>, type_.name,
                            type_.description, "")
    /\ UNCHANGED << svcFunctions, svcMessages >>

\* Service.declare_function(function)
declare_function(f) ==
    /\ UNCHANGED notS
    /\ IF Has(svcFunctions, f.name)
       THEN /\ lastOp' = Op("declare_function", << >>, f.name, f.description,
                            "ValueError")
            /\ UNCHANGED svcFunctions
       ELSE /\ svcFunctions' = dict_set(svcFunctions, f)
            /\ lastOp' = Op("declare_function", << >>, f.name, f.description, "")
    /\ UNCHANGED << svcTypes, svcMessages >>

\* Service.declare_message(message)
declare_message(message) ==
    /\ UNCHANGED notS
    /\ IF Has(svcMessages, message.name)
       THEN /\ lastOp' = Op("declare_message", << >>, message.name,
                            message.description, "ValueError")
            /\ UNCHANGED svcMessages
       ELSE /\ svcMessages' = dict_set(svcMessages, message)
            /\ lastOp' = Op("declare_message", << >>, message.name,
                            message.description, "")
    /\ UNCHANGED << svcTypes, svcFunctions >>

\* Function.declare_argument(argument) on the declared function named owner
declare_argument(owner, argument) ==
    /\ UNCHANGED notS
    /\ Has(svcFunctions, owner)
    /\ LET f == Lookup(svcFunctions, owner)
       IN  IF Has(f.arguments, argument.name)
           THEN /\ lastOp' = Op("declare_argument", owner, argument.name,
                                argument.description, "ValueError")
                /\ UNCHANGED svcFunctions
           ELSE /\ svcFunctions' = dict_set(svcFunctions,
                      [f EXCEPT !.arguments = dict_set(f.arguments, argument)])
                /\ lastOp' = Op("declare_argument", owner, argument.name,
                                argument.description, "")
    /\ UNCHANGED << svcTypes, svcMessages >>

\* ------------------------------------------------------- _ServiceResolver
\* "#/types/"
TypesPrefix == << "#", "/", "t", "y", "p", "e", "s", "/" >>
\* the id of the draft 7 metaschema
Draft7Id ==
    << "h", "t", "t", "p", ":", "/", "/", "j", "s", "o", "n", "-", "s", "c", "h", "e", "m", "a", ".", "o", "r", "g", "/" >>
        \o << "d", "r", "a", "f", "t", "-", "0", "7", "/", "s", "c", "h", "e", "m", "a" >>

\* the referrer given to RefResolver.__init__: the str "..."
Referrer == [keyword |-> "", kind |-> "str", repr |-> "..."]
\* one character of the referrer
Dot == [keyword |-> "", kind |-> "str", repr |-> "."]
\* Draft7Validator.META_SCHEMA
MetaSchema ==
    [keyword |-> "$schema", kind |-> "object",
     repr |-> "http://json-schema.org/draft-07/schema#"]

\* RefResolver.store after __init__("", "..."): the metaschemas under their
\* ids and the referrer under the base uri ""
Store ==
    { [uri |-> << >>, document |-> Referrer],
      [uri |-> Draft7Id, document |-> MetaSchema] }

\* document[part] for the parts that exist (a str is indexed by int(part));
\* every other part is a TypeError or LookupError
Members ==
    { [of |-> Referrer, part |-> << "0" >>, member |-> Dot],
      [of |-> Referrer, part |-> << "1" >>, member |-> Dot],
      [of |-> Referrer, part |-> << "2" >>, member |-> Dot],
      [of |-> Dot, part |-> << "0" >>, member |-> Dot] }

\* the references given to resolve
References ==
    { TypesPrefix \o n : n \in SvcNames }
        \cup { TypesPrefix,
               << "#", "/", "t", "y", "p", "e", "s" >>,
               << "#" >>,
               << "#", "/", "0" >>,
               << "#", "/", "d", "e", "f", "i", "n", "i", "t", "i", "o", "n", "s", "/", "a" >>,
               << "t", "y", "p", "e", "s", "/", "a" >>,
               Draft7Id,
               Draft7Id \o << "#" >>,
               Draft7Id \o << "#", "/", "n", "o", "p", "e" >> }

\* reference.startswith(prefix)
startswith(reference, prefix) ==
    /\ Len(reference) >= Len(prefix)
    /\ SubSeq(reference, 1, Len(prefix)) = prefix

\* urldefrag(url): the url before the first "#" and the fragment after it
urldefrag(url) ==
    IF \E i \in 1..Len(url) : url[i] = "#"
    THEN LET i == CHOOSE i \in 1..Len(url) :
                     /\ url[i] = "#"
                     /\ \A j \in 1..(i - 1) : url[j] # "#"
         IN  [url |-> SubSeq(url, 1, i - 1),
              fragment |-> SubSeq(url, i + 1, Len(url))]
    ELSE [url |-> url, fragment |-> << >>]

\* fragment.lstrip("/")
RECURSIVE lstrip_slash(_)
lstrip_slash(s) ==
    IF s # << >> /\ Head(s) = "/" THEN lstrip_slash(Tail(s)) ELSE s

\* s.split(sep), part being the part collected so far
RECURSIVE split(_, _, _)
split(s, sep, part) ==
    IF s = << >> THEN << part >>
    ELSE IF Head(s) = sep THEN << part >> \o split(Tail(s), sep, << >>)
    ELSE split(Tail(s), sep, Append(part, Head(s)))

\* s.split("/")
split_slash(s, part) == split(s, "/", part)

\* RefResolver.resolve_fragment: walks document along the parts
RECURSIVE walk(_, _)
walk(document, parts) ==
    IF parts = << >> THEN [raised |-> "", result |-> document]
    ELSE IF \E m \in Members : m.of = document /\ m.part = Head(parts)
    THEN walk((CHOOSE m \in Members :
                   m.of = document /\ m.part = Head(parts)).member,
              Tail(parts))
    ELSE [raised |-> "RefResolutionError", result |-> NoDocument]

resolve_fragment(document, fragment) ==
    LET stripped == lstrip_slash(fragment)
    IN  walk(document,
             IF stripped = << >> THEN << >> ELSE split_slash(stripped, << >>))

\* RefResolver.resolve with resolution scope "": the document stored under
\* the url, walked along the fragment; a url not in the store is fetched by
\* resolve_remote, which fails for the urls of References (no scheme)
RefResolver_resolve(reference) ==
    LET parsed == urldefrag(reference)
    IN  IF \E s \in Store : s.uri = parsed.url
        THEN resolve_fragment(
                 (CHOOSE s \in Store : s.uri = parsed.url).document,
                 parsed.fragment)
        ELSE [raised |-> "RefResolutionError", result |-> NoDocument]

\* _ServiceResolver.resolve(reference): the outcome of the call
ServiceResolver_resolve(reference) ==
    IF startswith(reference, TypesPrefix)
    THEN LET type_name == SubSeq(reference, Len(TypesPrefix) + 1,
                                 Len(reference))
         IN  IF Has(svcTypes, type_name)
             THEN [raised |-> "", result |-> Lookup(svcTypes, type_name).schema]
             ELSE [raised |-> "RefResolutionError", result |-> NoDocument]
    ELSE RefResolver_resolve(reference)

\* a call of the service's resolver
resolve(reference) ==
    /\ UNCHANGED notS
    /\ lastOp' = [Op("resolve", << >>, reference, "",
                     ServiceResolver_resolve(reference).raised)
                    EXCEPT !.result = ServiceResolver_resolve(reference).result]
    /\ UNCHANGED << svcTypes, svcFunctions, svcMessages >>

\* a declaration is attempted while the service holds fewer than MaxEntities
\* entities or the name is taken (the attempt then adds nothing)
SNext ==
    \/ \E n \in SvcNames, d \in Descriptions, sc \in TypeSchemas :
          /\ Entities < MaxEntities \/ Has(svcTypes, n)
          /\ declare_type(Entity(n, d, sc))
    \/ \E n \in SvcNames, d \in Descriptions :
          /\ Entities < MaxEntities \/ Has(svcFunctions, n)
          /\ declare_function(NewFunction(n, d))
    \/ \E n \in SvcNames, d \in Descriptions :
          /\ Entities < MaxEntities \/ Has(svcMessages, n)
          /\ declare_message(Entity(n, d, SchemaType("string")))
    \/ \E o \in SvcNames, n \in SvcNames, d \in Descriptions :
          /\ Has(svcFunctions, o)
          /\ Entities < MaxEntities \/ Has(Lookup(svcFunctions, o).arguments, n)
          /\ declare_argument(o, Entity(n, d, SchemaType("string")))
    \/ \E reference \in References : resolve(reference)

\* ------------------------------------------------------ skyhook/generate.py
\* str.lower and str.upper, character by character
LowerCase == << "a", "b", "c", "d", "e", "f", "g", "h", "i", "j", "k", "l", "m" >>
                 \o << "n", "o", "p", "q", "r", "s", "t", "u", "v", "w", "x", "y", "z" >>
UpperCase == << "A", "B", "C", "D", "E", "F", "G", "H", "I", "J", "K", "L", "M" >>
                 \o << "N", "O", "P", "Q", "R", "S", "T", "U", "V", "W", "X", "Y", "Z" >>
lower_char(c) ==
    IF \E i \in 1..Len(UpperCase) : UpperCase[i] = c
    THEN LowerCase[CHOOSE i \in 1..Len(UpperCase) : UpperCase[i] = c]
    ELSE c
upper_char(c) ==
    IF \E i \in 1..Len(LowerCase) : LowerCase[i] = c
    THEN UpperCase[CHOOSE i \in 1..Len(LowerCase) : LowerCase[i] = c]
    ELSE c
lower(s) == [i \in 1..Len(s) |-> lower_char(s[i])]
\* str.capitalize: first character upper case, the rest lower case
capitalize(s) ==
    IF s = << >> THEN << >>
    ELSE << upper_char(Head(s)) >> \o lower(Tail(s))

\* sep.join(parts)
RECURSIVE join(_, _)
join(parts, sep) ==
    IF parts = << >> THEN << >>
    ELSE IF Len(parts) = 1 THEN Head(parts)
    ELSE Head(parts) \o << sep >> \o join(Tail(parts), sep)

\* "".join(part.capitalize() for part in parts)
RECURSIVE join_capitalized(_)
join_capitalized(parts) ==
    IF parts = << >> THEN << >>
    ELSE capitalize(Head(parts)) \o join_capitalized(Tail(parts))

\* keyword.iskeyword for the keywords that start with an upper-case letter
\* (a capitalized identifier equals no other keyword)
kwlist == { << "F", "a", "l", "s", "e" >>,
            << "N", "o", "n", "e" >>,
            << "T", "r", "u", "e" >> }

\* _id_pascal(name): kebab-name to KebabName
id_pascal(name) ==
    LET identifier == join_capitalized(split(lower(name), "-", << >>))
    IN  IF identifier \in kwlist THEN identifier \o << "_" >> ELSE identifier

\* a schema document: the keys it has and the value under each
NoLiteral == [kind |-> "", repr |-> ""]
EmptySchema ==
    [has |-> {}, const |-> NoLiteral, enum |-> << >>, anyOf |-> << >>,
     ref |-> << >>, type |-> "", itemsIsList |-> FALSE, items |-> << >>,
     properties |-> << >>, required |-> << >>]
\* {"const": v}
Const(v) == [EmptySchema EXCEPT !.has = {"const"}, !.const = v]
\* {"enum": [...]}
Enum(values) == [EmptySchema EXCEPT !.has = {"enum"}, !.enum = values]
\* {"anyOf": [...]}
AnyOf(schemas) == [EmptySchema EXCEPT !.has = {"anyOf"}, !.anyOf = schemas]
\* {"$ref": reference}
Ref(reference) == [EmptySchema EXCEPT !.has = {"$ref"}, !.ref = reference]
\* {"type": t}
TypeOf(t) == [EmptySchema EXCEPT !.has = {"type"}, !.type = t]
\* {"type": "array", "items": schema}
ListOf(schema) ==
    [EmptySchema EXCEPT !.has = {"type", "items"}, !.type = "array",
                        !.items = << schema >>]
\* {"type": "array", "items": [...]}
TupleOf(schemas) ==
    [EmptySchema EXCEPT !.has = {"type", "items"}, !.type = "array",
                        !.itemsIsList = TRUE, !.items = schemas]
\* one entry of "properties"
Property(field, schema) == [field |-> field, schema |-> schema]
\* {"type": "object", "properties": {...}, "required": [...]}
ObjectOf(properties, required) ==
    [EmptySchema EXCEPT !.has = {"type", "properties", "required"},
                        !.type = "object", !.properties = properties,
                        !.required = required]
\* {"type": "object", "properties": {...}}
ObjectAllOptional(properties) ==
    [EmptySchema EXCEPT !.has = {"type", "properties"}, !.type = "object",
                        !.properties = properties]

\* the syntax tree of an annotation: ast.Name, ast.Constant, or ast.Subscript
\* of the name in id with the literal in value or the annotations in dims
NoAnnotation == [node |-> "", id |-> << >>, value |-> NoLiteral, dims |-> << >>]
Name(id) == [NoAnnotation EXCEPT !.node = "Name", !.id = id]
Constant(resolved) == [NoAnnotation EXCEPT !.node = "Constant", !.id = resolved]
Subscript(id, dims) ==
    [NoAnnotation EXCEPT !.node = "Subscript", !.id = id, !.dims = dims]
\* _typing(name), the attribute _typing.name
typing(name) == << "_", "t", "y", "p", "i", "n", "g", "." >> \o name

\* _annotate_literal(value)
annotate_literal(value) ==
    IF value = NoneValue THEN Name(<< "N", "o", "n", "e" >>)
    ELSE [Subscript(typing(<< "L", "i", "t", "e", "r", "a", "l" >>), << >>)
             EXCEPT !.value = value]

\* what a call of the compiler gives: the exception raised, or the
\* annotation and the statements of the preamble
Raised(exception) ==
    [raised |-> exception, annotation |-> NoAnnotation, preamble |-> << >>]
Returned(annotation, preamble) ==
    [raised |-> "", annotation |-> annotation, preamble |-> preamble]

\* _typed_dict(name, total, properties): the assignment of a TypedDict
typed_dict(name, total, fields) ==
    [stmt |-> "Assign", name |-> name, total |-> total, fields |-> fields,
     bases |-> << >>]
\* the class statement of _annotate_object
ClassDef(name, bases) ==
    [stmt |-> "ClassDef", name |-> name, total |-> FALSE, fields |-> {},
     bases |-> bases]

\* the resolve closures of _generate_types and _generate_functions
resolve_reference(module, reference) ==
    IF ~ startswith(reference, TypesPrefix)
    THEN [raised |-> "ValueError", resolved |-> << >>]
    ELSE LET name == SubSeq(reference, Len(TypesPrefix) + 1, Len(reference))
         IN  [raised |-> "",
              resolved |-> IF module = "types" THEN id_pascal(name)
                           ELSE << "_", "t", "y", "p", "e", "s", "." >> \o id_pascal(name)]

\* field in properties, properties[field]
HasProperty(properties, field) ==
    \E i \in 1..Len(properties) : properties[i].field = field
PropertyOf(properties, field) ==
    properties[CHOOSE i \in 1..Len(properties) :
                   properties[i].field = field].schema

\* the members of a list, each once, in the order of first occurrence
RECURSIVE unique(_)
unique(s) ==
    IF s = << >> THEN << >>
    ELSE LET rest == unique(SubSeq(s, 1, Len(s) - 1))
         IN  IF \E i \in 1..(Len(s) - 1) : s[i] = s[Len(s)]
             THEN rest ELSE Append(rest, s[Len(s)])

\* set(properties.keys()) - required, in the order of properties
RECURSIVE required_not(_, _)
required_not(properties, required) ==
    IF properties = << >> THEN << >>
    ELSE IF \E i \in 1..Len(required) : required[i] = Head(properties).field
    THEN required_not(Tail(properties), required)
    ELSE << Head(properties).field >>
             \o required_not(Tail(properties), required)

RECURSIVE annotate_schema(_, _, _)
RECURSIVE annotate_each(_, _, _)
RECURSIVE annotate_fields(_, _, _, _)

\* _annotate_object(schema, resolve, names)
annotate_object(schema, module, names) ==
    LET name == id_pascal(join(names, "-"))
        name_object == << "_" >> \o name \o << "D", "i", "c", "t" >>
        name_required == << "_" >> \o name \o << "R", "e", "q", "u", "i", "r", "e", "d" >>
        name_optional == << "_" >> \o name \o << "O", "p", "t", "i", "o", "n", "a", "l" >>
        properties == IF "properties" \in schema.has
                      THEN schema.properties ELSE << >>
        required == IF "required" \in schema.has
                    THEN unique(schema.required) ELSE << >>
        anno_required == annotate_fields(required, properties, module, names)
        anno_optional == annotate_fields(required_not(properties, required),
                                         properties, module, names)
    IN  IF anno_required.raised # "" THEN Raised(anno_required.raised)
        ELSE IF anno_optional.raised # "" THEN Raised(anno_optional.raised)
        ELSE Returned(
                 Name(name_object),
                 anno_required.preamble \o anno_optional.preamble
                     \o << typed_dict(name_required, TRUE,
                                      anno_required.annotations),
                           typed_dict(name_optional, FALSE,
                                      anno_optional.annotations),
                           ClassDef(name_object,
                                    << name_required, name_optional >>) >>)

\* the loop of _annotate_object over the fields of one map; the fields of a
\* Python set come in no fixed order, the maps hold them whatever the order
annotate_fields(fields, properties, module, names) ==
    IF fields = << >>
    THEN [raised |-> "", annotations |-> {}, preamble |-> << >>]
    ELSE IF ~ HasProperty(properties, Head(fields))
    THEN [raised |-> "KeyError", annotations |-> {}, preamble |-> << >>]
    ELSE LET first == annotate_schema(PropertyOf(properties, Head(fields)),
                                      module, Append(names, Head(fields)))
             rest == annotate_fields(Tail(fields), properties, module, names)
         IN  IF first.raised # ""
             THEN [raised |-> first.raised, annotations |-> {},
                   preamble |-> << >>]
             ELSE IF rest.raised # "" THEN rest
             ELSE [raised |-> "",
                   annotations |->
                       { [field |-> Head(fields),
                          annotation |-> first.annotation] }
                           \cup rest.annotations,
                   preamble |-> first.preamble \o rest.preamble]

\* the loops of _annotate_schema (anyOf) and _annotate_tuple (items): every
\* subschema is compiled with the names given
annotate_each(schemas, module, names) ==
    IF schemas = << >>
    THEN [raised |-> "", dims |-> << >>, preamble |-> << >>]
    ELSE LET first == annotate_schema(Head(schemas), module, names)
             rest == annotate_each(Tail(schemas), module, names)
         IN  IF first.raised # ""
             THEN [raised |-> first.raised, dims |-> << >>, preamble |-> << >>]
             ELSE IF rest.raised # "" THEN rest
             ELSE [raised |-> "",
                   dims |-> << first.annotation >> \o rest.dims,
                   preamble |-> first.preamble \o rest.preamble]

\* _annotate_tuple(schema, resolve, names)
annotate_tuple(schema, module, names) ==
    LET elements == annotate_each(schema.items, module, names)
    IN  IF elements.raised # "" THEN Raised(elements.raised)
        ELSE Returned(Subscript(typing(<< "T", "u", "p", "l", "e" >>), elements.dims),
                      elements.preamble)

\* mutant: an enum becomes the literal of its last value
annotate_enum_last(values) == annotate_literal(values[Len(values)])

\* the enum branch of _annotate_schema: returns in the first pass of the loop
annotate_enum(values) == annotate_literal(Head(values))

\* the $ref branch of _annotate_schema
annotate_ref(schema, module) ==
    LET resolution == resolve_reference(module, schema.ref)
    IN  IF resolution.raised # "" THEN Raised(resolution.raised)
        ELSE Returned(Constant(resolution.resolved), << >>)

\* mutant: a schema of no known shape is annotated Any
unsupported_any(schema) ==
    Returned(Name(typing(<< "A", "n", "y" >>)), << >>)

\* the end of _annotate_schema: raise Exception(schema)
unsupported(schema) == Raised("Exception")

\* the "type" branch of _annotate_schema
annotate_type(schema, module, names) ==
    IF schema.type = "null" THEN Returned(annotate_literal(NoneValue), << >>)
    ELSE IF schema.type = "integer"
    THEN Returned(Name(<< "i", "n", "t" >>), << >>)
    ELSE IF schema.type = "number"
    THEN Returned(Subscript(<< "U", "n", "i", "o", "n" >>,
                            << Name(<< "i", "n", "t" >>),
                               Name(<< "f", "l", "o", "a", "t" >>) >>), << >>)
    ELSE IF schema.type = "boolean"
    THEN Returned(Name(<< "b", "o", "o", "l" >>), << >>)
    ELSE IF schema.type = "string"
    THEN Returned(Name(<< "s", "t", "r" >>), << >>)
    ELSE IF schema.type = "array"
    THEN IF "items" \notin schema.has THEN Raised("KeyError")
         ELSE IF schema.itemsIsList THEN annotate_tuple(schema, module, names)
         ELSE LET item == annotate_schema(schema.items[1], module, names)
              IN  IF item.raised # "" THEN item
                  ELSE Returned(Subscript(typing(<< "L", "i", "s", "t" >>),
                                          << item.annotation >>),
                                item.preamble)
    ELSE IF schema.type = "object" THEN annotate_object(schema, module, names)
    ELSE unsupported(schema)

\* _annotate_schema(schema, resolve, names)
annotate_schema(schema, module, names) ==
    IF "const" \in schema.has
    THEN Returned(annotate_literal(schema.const), << >>)
    ELSE IF "enum" \in schema.has /\ schema.enum # << >>
    THEN Returned(annotate_enum(schema.enum), << >>)
    ELSE IF "anyOf" \in schema.has
    THEN LET members == annotate_each(schema.anyOf, module, names)
         IN  IF members.raised # "" THEN Raised(members.raised)
             ELSE Returned(Subscript(typing(<< "U", "n", "i", "o", "n" >>),
                                     members.dims),
                           members.preamble)
    ELSE IF "$ref" \in schema.has THEN annotate_ref(schema, module)
    ELSE IF "type" \in schema.has THEN annotate_type(schema, module, names)
    ELSE unsupported(schema)

\* ----------------------------------------------------------------- Package
\* the names of properties and arguments
FieldNames == { << "x" >>, << "y" >> }
\* Python's None where a schema may be missing (Function.return_)
NoSchema == [EmptySchema EXCEPT !.type = "None"]

\* {"type": "object", "properties": {"x": {"type": "string"}},
\*  "required": ["x"]}
Point ==
    ObjectOf(<< Property(<< "x" >>, TypeOf("string")) >>, << << "x" >> >>)
\* an object with an object inside, under an optional field
Nested ==
    ObjectOf(<< Property(<< "x" >>, TypeOf("integer")),
                Property(<< "y" >>, Point) >>, << << "x" >> >>)

\* the schemas of the types compiled
Schemas ==
    { TypeOf(t) : t \in {"null", "integer", "number", "boolean", "string",
                         "array", "object", "bogus"} }
        \cup { EmptySchema,
               Const(Str("foo")), Const(NoneValue),
               Enum(<< Str("foo"), Str("bar"), Num("50") >>),
               Enum(<< NoneValue, Str("foo") >>),
               Enum(<< >>),
               Ref(TypesPrefix \o << "a" >>),
               Ref(TypesPrefix \o << "b" >>),
               Ref(<< "#", "/", "d", "e", "f", "i", "n", "i", "t", "i", "o", "n", "s", "/", "a" >>),
               AnyOf(<< TypeOf("string"), TypeOf("null") >>),
               AnyOf(<< Point, Nested >>),
               ListOf(TypeOf("string")),
               ListOf(Point),
               ListOf(Ref(TypesPrefix \o << "b" >>)),
               TupleOf(<< TypeOf("string"), TypeOf("integer") >>),
               TupleOf(<< Point, Point >>),
               Point,
               Nested,
               ObjectAllOptional(<< Property(<< "x" >>, TypeOf("string")) >>),
               ObjectOf(<< Property(<< "x" >>, TypeOf("string")) >>,
                        << << "y" >> >>),
               ObjectOf(<< Property(<< "x" >>,
                                    Ref(TypesPrefix \o << "b" >>)) >>,
                        << << "x" >>, << "x" >> >>) }

\* the schemas of the arguments and returns compiled
SignatureSchemas ==
    { TypeOf("string"), Point, Ref(TypesPrefix \o << "a" >>),
      TypeOf("bogus") }

\* a type of the service
PkgType(name, schema) ==
    [name |-> name, schema |-> schema, arguments |-> << >>,
     return_ |-> NoSchema]
\* a function of the service: its arguments, and its return schema or None
PkgFunction(name, arguments, return_) ==
    [name |-> name, schema |-> NoSchema, arguments |-> arguments,
     return_ |-> return_]
PkgTypes == { PkgType(n, sc) : n \in SvcNames, sc \in Schemas }
PkgArguments ==
    { << >> } \cup { << [name |-> n, schema |-> sc] >> :
                        n \in FieldNames, sc \in SignatureSchemas }
PkgFunctions ==
    { PkgFunction(n, a, r) :
          n \in SvcNames, a \in PkgArguments,
          r \in {NoSchema} \cup SignatureSchemas }

\* the type or function compiled and what its compilation gave: arguments
\* holds the annotation of each argument, value the annotation of the type
\* or of the return
Unit(unit, source, raised, arguments, value, preamble) ==
    [unit |-> unit, source |-> source, raised |-> raised,
     arguments |-> arguments, value |-> value, preamble |-> preamble]
NoUnit ==
    Unit("none", PkgType(<< >>, NoSchema), "", << >>, NoAnnotation, << >>)

\* the names the statements of a preamble assign
StatementNames(preamble) == [i \in 1..Len(preamble) |-> preamble[i].name]

CInit ==
    /\ pkgPc = "new"
    /\ pkgTypeNames = {}
    /\ typesDone = {}
    /\ functionsDone = {}
    /\ typesPreamble = << >>
    /\ functionsPreamble = << >>
    /\ lastUnit = NoUnit

\* Package(service): names are the names of the types the service declares
Package_init(names) ==
    /\ UNCHANGED notC
    /\ pkgPc = "new"
    /\ pkgPc' = "types"
    /\ pkgTypeNames' = names
    /\ UNCHANGED << typesDone, functionsDone, typesPreamble,
                    functionsPreamble, lastUnit >>

\* one pass of the loop of _generate_types
generate_type(type_) ==
    /\ UNCHANGED notC
    /\ pkgPc = "types"
    /\ type_.name \in pkgTypeNames \ typesDone
    /\ LET compiled == annotate_schema(type_.schema, "types", << type_.name >>)
       IN  /\ lastUnit' = Unit("type", type_, compiled.raised, << >>,
                               compiled.annotation, compiled.preamble)
           /\ IF compiled.raised # ""
              THEN pkgPc' = "failed" /\ UNCHANGED << typesDone, typesPreamble >>
              ELSE /\ pkgPc' = "types"
                   /\ typesDone' = typesDone \cup {type_.name}
                   /\ typesPreamble' =
                          typesPreamble \o StatementNames(compiled.preamble)
    /\ UNCHANGED << pkgTypeNames, functionsDone, functionsPreamble >>

\* the end of _generate_types and the start of _generate_functions
generate_functions ==
    /\ UNCHANGED notC
    /\ pkgPc = "types"
    /\ typesDone = pkgTypeNames
    /\ pkgPc' = "functions"
    /\ UNCHANGED << pkgTypeNames, typesDone, functionsDone, typesPreamble,
                    functionsPreamble, lastUnit >>

\* the loop of _generate_function over the arguments
RECURSIVE annotate_arguments(_, _)
annotate_arguments(name, arguments) ==
    IF arguments = << >>
    THEN [raised |-> "", annotations |-> << >>, preamble |-> << >>]
    ELSE LET first == annotate_schema(Head(arguments).schema, "functions",
                                      << name, Head(arguments).name >>)
             rest == annotate_arguments(name, Tail(arguments))
         IN  IF first.raised # ""
             THEN [raised |-> first.raised, annotations |-> << >>,
                   preamble |-> << >>]
             ELSE IF rest.raised # "" THEN rest
             ELSE [raised |-> "",
                   annotations |-> << first.annotation >> \o rest.annotations,
                   preamble |-> first.preamble \o rest.preamble]

\* the return of _generate_function: compiled when there is one, with no names
annotate_return(function_) ==
    IF function_.return_ = NoSchema THEN Returned(NoAnnotation, << >>)
    ELSE annotate_schema(function_.return_, "functions", << >>)

\* _generate_function(function, module, resolve)
generate_function(function_) ==
    /\ UNCHANGED notC
    /\ pkgPc = "functions"
    /\ function_.name \notin functionsDone
    /\ LET arguments == annotate_arguments(function_.name, function_.arguments)
           returns == annotate_return(function_)
           raised == IF arguments.raised # "" THEN arguments.raised
                     ELSE returns.raised
       IN  IF raised # ""
           THEN /\ lastUnit' = Unit("function", function_, raised, << >>,
                                    NoAnnotation, << >>)
                /\ pkgPc' = "failed"
                /\ UNCHANGED << functionsDone, functionsPreamble >>
           ELSE /\ lastUnit' = Unit("function", function_, "",
                                    arguments.annotations, returns.annotation,
                                    arguments.preamble \o returns.preamble)
                /\ pkgPc' = "functions"
                /\ functionsDone' = functionsDone \cup {function_.name}
                /\ functionsPreamble' =
                       functionsPreamble
                           \o StatementNames(arguments.preamble
                                                 \o returns.preamble)
    /\ UNCHANGED << pkgTypeNames, typesDone, typesPreamble >>

\* the end of _generate_functions and _generate_init: the package is complete
generate_init ==
    /\ UNCHANGED notC
    /\ pkgPc = "functions"
    /\ pkgPc' = "done"
    /\ UNCHANGED << pkgTypeNames, typesDone, functionsDone, typesPreamble,
                    functionsPreamble, lastUnit >>

\* deepest nesting of calls of _annotate_schema that is counted
MaxFrames == 6

RECURSIVE frames(_, _, _)
RECURSIVE frames_each(_, _, _)

\* mutant: a reference to the type being compiled is unfolded
frames_ref_unfold(schema, type_, fuel) ==
    IF schema.ref = TypesPrefix \o type_.name
    THEN frames(type_.schema, type_, fuel) ELSE 0

\* the $ref branch calls resolve(reference) and returns: no call of
\* _annotate_schema is made for the schema referred to
frames_ref(schema, type_, fuel) == 0

\* the calls of _annotate_schema nested inside one another when schema of
\* type_ is compiled, counted as far as fuel
frames(schema, type_, fuel) ==
    IF fuel = 0 THEN 0
    ELSE 1 + (IF "const" \in schema.has THEN 0
              ELSE IF "enum" \in schema.has /\ schema.enum # << >> THEN 0
              ELSE IF "anyOf" \in schema.has
              THEN frames_each(schema.anyOf, type_, fuel - 1)
              ELSE IF "$ref" \in schema.has
              THEN frames_ref(schema, type_, fuel - 1)
              ELSE IF "type" \in schema.has /\ schema.type = "array"
              THEN frames_each(schema.items, type_, fuel - 1)
              ELSE IF "type" \in schema.has /\ schema.type = "object"
              THEN frames_each([i \in 1..Len(schema.properties) |->
                                    schema.properties[i].schema],
                               type_, fuel - 1)
              ELSE 0)

\* the deepest of the calls made in a loop over subschemas
frames_each(schemas, type_, fuel) ==
    IF schemas = << >> THEN 0
    ELSE LET first == frames(Head(schemas), type_, fuel)
             rest == frames_each(Tail(schemas), type_, fuel)
         IN  IF first > rest THEN first ELSE rest

CNext ==
    \/ generate_init
    \/ pkgPc = "new" /\ \E names \in SUBSET SvcNames : Package_init(names)
    \/ pkgPc = "types" /\ \E type_ \in PkgTypes : generate_type(type_)
    \/ generate_functions
    \/ pkgPc = "functions"
           /\ \E function_ \in PkgFunctions : generate_function(function_)

\* --------------------------------------------------- dispatch/hook runtime
\* the hook instances and the call chains (threads, tasks)
Hooks == {"A", "B"}
Chains == {"chain1", "chain2"}
\* deepest nesting of bind() scopes in one chain
MaxDepth == 3

\* an operation of the runtime: result is the hook current() returned,
\* raised the error it failed with
HookOp(op, chain, hook, result, raised) ==
    [op |-> op, chain |-> chain, hook |-> hook, result |-> result,
     raised |-> raised]

\* the names called, the routing descriptors and the payloads of the calls
CallNames == {"test"}
Descriptors == {"arn:aws:lambda:play"}
Payloads == {Str("bar"), Num("100")}
\* what a local implementation or the collaborator may return
Outcomes == {Num("500"), Num("100"), Str("not number")}
\* the name of the declared message
MessageName == "foo"
\* no value: the call raised
NoResult == [kind |-> "", repr |-> ""]

\* the bindings of one name in one hook: remote "" is no routing descriptor
Binding(local, remote) == [local |-> local, remote |-> remote]
\* the declared function of a name
FunctionNamed(name) == CHOOSE f \in Functions : f.name = name

\* one invocation made on behalf of a call or send: of the local
\* implementation, of the external invocation collaborator, or of hook.send
Invocation(target, hook, name, descriptor, payload) ==
    [target |-> target, hook |-> hook, name |-> name,
     descriptor |-> descriptor, payload |-> payload]
\* a call or send, the invocations it made, and how it ended
Dispatched(op, chain, name, payload, invoked, result, raised) ==
    [op |-> op, chain |-> chain, name |-> name, payload |-> payload,
     invoked |-> invoked, result |-> result, raised |-> raised]

HInit ==
    /\ stacks = [c \in Chains |-> << >>]
    /\ hookOp = HookOp("none", "", "", "", "")
    /\ bindings = [h \in Hooks |-> [n \in CallNames |-> Binding(FALSE, "")]]
    /\ lastCall = Dispatched("none", "", "", NoResult, << >>, NoResult, "")

\* mutant: leaving a scope leaves no hook current
bind_exit_clear(chain) ==
    /\ UNCHANGED notH
    /\ stacks[chain] # << >>
    /\ stacks' = [stacks EXCEPT ![chain] = << >>]
    /\ hookOp' = HookOp("exit", chain, stacks[chain][Len(stacks[chain])],
                        "", "")
    /\ UNCHANGED << bindings, lastCall >>

\* entering the scope of hook.bind() in a call chain
bind_enter(chain, hook) ==
    /\ UNCHANGED notH
    /\ stacks' = [stacks EXCEPT ![chain] = Append(@, hook)]
    /\ hookOp' = HookOp("enter", chain, hook, "", "")
    /\ UNCHANGED << bindings, lastCall >>

\* leaving the innermost open scope of a call chain
bind_exit(chain) ==
    /\ UNCHANGED notH
    /\ stacks[chain] # << >>
    /\ stacks' = [stacks EXCEPT ![chain] = SubSeq(@, 1, Len(@) - 1)]
    /\ hookOp' = HookOp("exit", chain, stacks[chain][Len(stacks[chain])],
                        "", "")
    /\ UNCHANGED << bindings, lastCall >>

\* mutant: one current hook for the whole process: a chain without a scope
\* of its own sees the scope another chain has open
current_process_wide(chain) ==
    /\ UNCHANGED notH
    /\ hookOp' =
           IF stacks[chain] # << >>
           THEN HookOp("current", chain, "",
                       stacks[chain][Len(stacks[chain])], "")
           ELSE IF \E c \in Chains : stacks[c] # << >>
           THEN HookOp("current", chain, "",
                       LET c == CHOOSE c \in Chains : stacks[c] # << >>
                       IN  stacks[c][Len(stacks[c])], "")
           ELSE HookOp("current", chain, "", "", "NoActiveHook")
    /\ UNCHANGED << stacks, bindings, lastCall >>

\* Hook.current() evaluated in a call chain
current(chain) ==
    /\ UNCHANGED notH
    /\ hookOp' = IF stacks[chain] = << >>
                 THEN HookOp("current", chain, "", "", "NoActiveHook")
                 ELSE HookOp("current", chain, "",
                             stacks[chain][Len(stacks[chain])], "")
    /\ UNCHANGED << stacks, bindings, lastCall >>

HNext ==
    \/ \E c \in Chains, h \in Hooks :
          Len(stacks[c]) < MaxDepth /\ bind_enter(c, h)
    \/ \E c \in Chains : bind_exit(c)
    \/ \E c \in Chains : current(c)

\* hook.define(name, descriptor): registers the remote routing target
define(hook, name, descriptor) ==
    /\ UNCHANGED notH
    /\ bindings' = [bindings EXCEPT ![hook][name].remote = descriptor]
    /\ UNCHANGED << stacks, hookOp, lastCall >>

\* a local implementation is attached to the name
attach(hook, name) ==
    /\ UNCHANGED notH
    /\ bindings' = [bindings EXCEPT ![hook][name].local = TRUE]
    /\ UNCHANGED << stacks, hookOp, lastCall >>

\* the Return guard on the result of a remote call
return_guard(name, result) ==
    IF Lambda_validate_return(FunctionNamed(name), result)
    THEN [result |-> result, raised |-> ""]
    ELSE [result |-> NoResult, raised |-> "ContractError"]

\* mutant: the remote routing target is preferred to the local implementation
route_remote_first(hook, name) ==
    IF bindings[hook][name].remote # "" THEN "remote"
    ELSE IF bindings[hook][name].local THEN "local"
    ELSE "UnboundCall"

\* where call sends a name: the local implementation when bound, else the
\* remote target when registered
route(hook, name) ==
    IF bindings[hook][name].local THEN "local"
    ELSE IF bindings[hook][name].remote # "" THEN "remote"
    ELSE "UnboundCall"

\* Hook.current().call(name, payload) in a call chain; outcome is what the
\* invoked implementation or collaborator returns
call(chain, name, payload, outcome) ==
    /\ UNCHANGED notH
    /\ IF stacks[chain] = << >>
       THEN lastCall' = Dispatched("call", chain, name, payload, << >>,
                                   NoResult, "NoActiveHook")
       ELSE LET hook == stacks[chain][Len(stacks[chain])]
                to == route(hook, name)
            IN  lastCall' =
                     IF to = "local"
                     THEN Dispatched("call", chain, name, payload,
                              << Invocation("local", hook, name, "",
                                            payload) >>,
                              outcome, "")
                     ELSE IF to = "remote"
                     THEN Dispatched("call", chain, name, payload,
                              << Invocation("remote", hook, name,
                                            bindings[hook][name].remote,
                                            payload) >>,
                              return_guard(name, outcome).result,
                              return_guard(name, outcome).raised)
                     ELSE Dispatched("call", chain, name, payload, << >>,
                                     NoResult, "UnboundCall")
    /\ UNCHANGED << stacks, hookOp, bindings >>

\* mutant: the hook is consulted before the message is validated
Messenger_send_hook_first(chain, message) ==
    /\ UNCHANGED notH
    /\ lastCall' =
         IF stacks[chain] = << >>
         THEN Dispatched("send", chain, MessageName, message, << >>,
                         NoResult, "NoActiveHook")
         ELSE IF ~ Messenger_validate(messageSchema, message)
         THEN Dispatched("send", chain, MessageName, message, << >>,
                         NoResult, "ContractError")
         ELSE Dispatched("send", chain, MessageName, message,
                  << Invocation("send", stacks[chain][Len(stacks[chain])],
                                MessageName, "", message) >>,
                  NoResult, "")
    /\ UNCHANGED << stacks, hookOp, bindings >>

\* Messenger.send(message) in a call chain: validate, Hook.current(), then
\* hook.send(self._message.name, message)
Messenger_send(chain, message) ==
    /\ UNCHANGED notH
    /\ lastCall' =
         IF ~ Messenger_validate(messageSchema, message)
         THEN Dispatched("send", chain, MessageName, message, << >>,
                         NoResult, "ContractError")
         ELSE IF stacks[chain] = << >>
         THEN Dispatched("send", chain, MessageName, message, << >>,
                         NoResult, "NoActiveHook")
         ELSE Dispatched("send", chain, MessageName, message,
                  << Invocation("send", stacks[chain][Len(stacks[chain])],
                                MessageName, "", message) >>,
                  NoResult, "")
    /\ UNCHANGED << stacks, hookOp, bindings >>

\* the dispatch of one call chain
DNext ==
    \/ \E h \in Hooks :
          Len(stacks["chain1"]) < MaxDepth /\ bind_enter("chain1", h)
    \/ bind_exit("chain1")
    \/ \E h \in Hooks, n \in CallNames, d \in Descriptors : define(h, n, d)
    \/ \E h \in Hooks, n \in CallNames : attach(h, n)
    \/ \E n \in CallNames, p \in Payloads, r \in Outcomes :
          call("chain1", n, p, r)
    \/ \E m \in Payloads : Messenger_send("chain1", m)

FNext ==
    \/ fpc = "idle" /\ \E e \in Events : lambda_guard_enter(e)
    \/ fpc = "callable_" /\ \E v \in ReturnValues : lambda_guard_return(v)
    \/ fpc = "idle" /\ \E v \in ReturnValues : validate_return(v)
    \/ lambda_guard_raise
    \/ lambda_guard_again

MNext ==
    \/ mpc = "idle" /\ \E ev \in Envelopes, b \in BOOLEAN :
                           messenger_guard_enter(ev, b)
    \/ handler_return
    \/ handler_raise
    \/ messenger_guard_again

Init == FInit /\ MInit /\ SInit /\ CInit /\ HInit

\* the function entry point alone
SpecLambda == Init /\ [][FNext]_vars

\* the message entry point alone
InitMessenger == Init /\ function.name = "test"

SpecMessenger == InitMessenger /\ [][MNext]_vars

InitService == Init /\ function.name = "test"

\* the declarations of a service and its resolver
SpecService == InitService /\ [][SNext]_vars

InitCompile == Init /\ function.name = "test"

\* the generation of a package
SpecCompile == InitCompile /\ [][CNext]_vars

InitHook == Init /\ function.name = "test"

\* the hook runtime
SpecHook == InitHook /\ [][HNext]_vars

\* _generate runs its loops to the end: a step that can be taken is taken
SpecCompileFair == InitCompile /\ [][CNext]_vars /\ WF_vars(CNext)

InitDispatch == Init /\ function.name = "test"

\* calls and sends routed by the current hook
SpecDispatch == InitDispatch /\ [][DNext]_vars

\* ================================================================== claims
\* ---------------------------------------------- function entry point (C1-C4)

\* the event is a mapping that misses a declared argument
MissingArgument(f, e) ==
    e.isdict /\ \E i \in 1..Len(f.arguments) : ~HasKey(e, f.arguments[i].name)

\* the event is a mapping with a field that is no declared argument
ExtraField(f, e) ==
    e.isdict /\ \E k \in KeysOf(e) : k \notin ArgumentNames(f)

\* the event is a mapping with a field whose value fails its argument's schema
FailingField(f, e) ==
    e.isdict /\ \E i \in 1..Len(f.arguments) :
        /\ HasKey(e, f.arguments[i].name)
        /\ ~is_valid(f.arguments[i].schema, Get(e, f.arguments[i].name))

\* the key set is exactly the declared names and every value passes
MatchingEvent(f, e) ==
    /\ e.isdict
    /\ KeysOf(e) = ArgumentNames(f)
    /\ \A i \in 1..Len(f.arguments) :
          is_valid(f.arguments[i].schema, Get(e, f.arguments[i].name))

Entered == fpc # "idle"

\* C1: an event that misses a declared argument, has a field that is no
\* declared argument, or has a field failing its schema makes the entry point
\* raise ContractError, and the implementation is invoked zero times.
C1_InvalidEventRejected ==
    (Entered /\ (\/ MissingArgument(function, event)
                 \/ ExtraField(function, event)
                 \/ FailingField(function, event)))
        => /\ fpc = "done"
           /\ foutcome = "ContractError"
           /\ implCalls = 0
           /\ ftrace = << "validate" >>

\* C1 witness: an event with every declared argument valid and one extra
\* field was rejected
C1_Witness ==
    /\ fpc = "done"
    /\ ExtraField(function, event)
    /\ ~MissingArgument(function, event)
    /\ ~FailingField(function, event)
    /\ foutcome = "ContractError"

\* C2: an event whose key set is exactly the declared argument names and
\* whose values pass their schemas is accepted; the implementation is invoked
\* exactly once, each parameter bound to the event field of the same name,
\* whatever the order of the keys in the event.
C2_ValidEventBoundByName ==
    (Entered /\ MatchingEvent(function, event))
        => /\ implCalls = 1
           /\ SubSeq(ftrace, 1, 3) = << "validate", "bind", "callable_" >>
           /\ Len(implArgs) = Len(function.arguments)
           /\ \A i \in 1..Len(function.arguments) :
                 implArgs[i] = Get(event, function.arguments[i].name)

\* C2 witness: an accepted event that lists its keys in another order than
\* the declaration, with different values
C2_Witness ==
    /\ fpc = "callable_"
    /\ MatchingEvent(function, event)
    /\ Len(function.arguments) = 2
    /\ event.items[1].key = function.arguments[2].name
    /\ event.items[1].value # event.items[2].value
    /\ implCalls = 1

\* C3: with a Return declared, the result is validated after the
\* implementation has run: a result violating the return schema raises
\* ContractError with the implementation invoked exactly once, and a result
\* satisfying it is returned unchanged.
C3_ReturnValidatedAfterCall ==
    /\ \A i \in 1..Len(ftrace) :
          ftrace[i] = "validate_return"
              => implCalls = 1 /\ \E j \in 1..(i - 1) : ftrace[j] = "callable_"
    /\ (fpc = "done" /\ function.return_ # NoReturn /\ implCalls > 0
            /\ foutcome # "RuntimeError")
          => /\ implCalls = 1
             /\ ftrace = << "validate", "bind", "callable_", "validate_return" >>
             /\ IF is_valid(function.return_, implReturn)
                THEN foutcome = "returned" /\ fresult = implReturn
                ELSE foutcome = "ContractError"

\* C3 witness: the implementation ran and its result was rejected
C3_Witness ==
    /\ fpc = "done"
    /\ function.return_ # NoReturn
    /\ implCalls = 1
    /\ ~is_valid(function.return_, implReturn)
    /\ foutcome = "ContractError"

\* C4: with no Return declared, a valid event invokes the implementation, its
\* result is not validated, and the entry point returns None whatever the
\* implementation returned.
C4_NoReturnDiscardsResult ==
    function.return_ = NoReturn
        => /\ (Entered /\ MatchingEvent(function, event)) => implCalls = 1
           /\ \A i \in 1..Len(ftrace) : ftrace[i] # "validate_return"
           /\ (fpc = "done" /\ implCalls > 0 /\ foutcome # "RuntimeError")
                 => foutcome = "returned" /\ fresult = NoneValue

\* C4 witness: the implementation returned a number and the call returned None
C4_Witness ==
    /\ fpc = "done"
    /\ function.return_ = NoReturn
    /\ implCalls = 1
    /\ implReturn = Num("500")
    /\ foutcome = "returned"
    /\ fresult = NoneValue

\* ----------------------------------------------- message entry point (C5-C10)

IsSns(r) == r.EventSource = "aws:sns"
IsSqs(r) == r.eventSource = "aws:sqs"

\* the decoded payloads of the SNS-tagged records, in record order
SnsPayloads(rs) ==
    LET tagged == SelectSeq(rs, IsSns)
    IN  [i \in 1..Len(tagged) |-> json_loads(tagged[i].Message).value]

\* the decoded payloads of the SQS-tagged records, in record order
SqsPayloads(rs) ==
    LET tagged == SelectSeq(rs, IsSqs)
    IN  [i \in 1..Len(tagged) |-> json_loads(tagged[i].body).value]

\* the number of records carrying a known tag
KnownTagged(rs) == Cardinality({ i \in 1..Len(rs) : IsSns(rs[i]) \/ IsSqs(rs[i]) })

\* the records of the event, none when there is no Records list
RecordsOf(ev) == IF ev.isdict /\ ev.hasRecords THEN ev.Records ELSE << >>

\* the call got past the extraction of the messages
ExtractedOk == mpc # "idle" /\ moutcome # "ContractError"

\* C5 (as stated): the extracted sequence is the SNS payloads in record
\* order followed by the SQS payloads in record order, and its length equals
\* the number of records carrying a known tag.
C5_Original_LengthIsKnownTaggedRecords ==
    ExtractedOk
        => /\ messages = SnsPayloads(RecordsOf(envelope))
                            \o SqsPayloads(RecordsOf(envelope))
           /\ Len(messages) = KnownTagged(RecordsOf(envelope))

\* C5 (amended): the extracted sequence is the SNS payloads in record order
\* followed by the SQS payloads in record order; its length is the number of
\* SNS-tagged records plus the number of SQS-tagged records, which is the
\* number of records carrying a known tag when no record carries both tags.
C5_SnsThenSqsInRecordOrder ==
    ExtractedOk
        => LET rs == RecordsOf(envelope)
           IN  /\ messages = SnsPayloads(rs) \o SqsPayloads(rs)
               /\ Len(messages) = Len(SelectSeq(rs, IsSns)) + Len(SelectSeq(rs, IsSqs))
               /\ (\A i \in 1..Len(rs) : ~(IsSns(rs[i]) /\ IsSqs(rs[i])))
                     => Len(messages) = KnownTagged(rs)

\* C5 witness: an SQS record precedes an SNS record in the event and the SNS
\* message comes first in the extracted sequence
C5_Witness ==
    /\ ExtractedOk
    /\ Len(envelope.Records) = 3
    /\ IsSqs(envelope.Records[1]) /\ ~IsSns(envelope.Records[1])
    /\ IsSns(envelope.Records[2]) /\ ~IsSqs(envelope.Records[2])
    /\ IsSqs(envelope.Records[3]) /\ ~IsSns(envelope.Records[3])
    /\ envelope.Records[1].body # envelope.Records[2].Message
    /\ Len(messages) = 3
    /\ messages[1] = json_loads(envelope.Records[2].Message).value

\* the records of the event that carry a known tag
KnownRecords(ev) ==
    LET known(r) == IsSns(r) \/ IsSqs(r)
    IN  SelectSeq(RecordsOf(ev), known)

C7_NoRecordsRaisesContractError ==
    (mpc # "idle" /\ ~batched /\ envelope.isdict /\ ~envelope.hasRecords)
        => moutcome = "ContractError" /\ handledOne = << >>

\* C8: in per-message mode the handler is invoked once per extracted
\* message, in extraction order; when it raises on message i the exception
\* propagates, messages 1..i-1 have each been handled exactly once and
\* messages i+1..n are never passed to the handler in that call.
C8_PerMessageStopsAtFailure ==
    (ExtractedOk /\ ~batched)
        => /\ handledBatch = << >>
           /\ Len(handledOne) = nextIndex
           /\ nextIndex <= Len(messages)
           /\ handledOne = SubSeq(messages, 1, nextIndex)
           /\ mpc = "callable_" => completed = nextIndex - 1
           /\ (mpc = "done" /\ moutcome = "RuntimeError")
                 => completed = nextIndex - 1
           /\ (mpc = "done" /\ moutcome # "RuntimeError")
                 => /\ moutcome = "returned"
                    /\ completed = Len(messages)
                    /\ handledOne = messages

\* C8 witness: of three messages the second made the handler raise
C8_Witness ==
    /\ mpc = "done"
    /\ ~batched
    /\ moutcome = "RuntimeError"
    /\ Len(messages) = 3
    /\ nextIndex = 2
    /\ completed = 1
    /\ handledOne = << messages[1], messages[2] >>

\* C9 (as stated): in per-message mode every extracted message is passed to
\* the handler once, whether or not an earlier invocation raised.
C9_Original_EveryMessageHandled ==
    (mpc = "done" /\ ExtractedOk /\ ~batched) => handledOne = messages

\* C9 (amended): in per-message mode a handler failure for message i ends
\* the call with that failure: the handler is not invoked for messages
\* i+1..n. Every extracted message has been passed to the handler only when
\* no invocation before the last one raised.
C9_FailureEndsTheCall ==
    (mpc = "done" /\ ExtractedOk /\ ~batched)
        => /\ completed <= Len(messages)
           /\ completed < Len(messages)
                 => /\ moutcome = "RuntimeError"
                    /\ Len(handledOne) = completed + 1
                    /\ handledOne = SubSeq(messages, 1, completed + 1)
           /\ completed = Len(messages)
                 => moutcome = "returned" /\ handledOne = messages

\* C9 witness: the handler raised on the first of two messages and the
\* second was not passed to it
C9_Witness ==
    /\ mpc = "done"
    /\ ~batched
    /\ moutcome = "RuntimeError"
    /\ Len(messages) = 2
    /\ Len(handledOne) = 1

\* C10: in batched mode the handler is invoked exactly once per call,
\* whatever the number of extracted messages (zero included), with the
\* entire extracted sequence; an exception of the handler propagates, so the
\* batch succeeds or fails as a whole.
C10_BatchedInvokedOnceWithAll ==
    (ExtractedOk /\ batched)
        => /\ handledBatch = << messages >>
           /\ handledOne = << >>
           /\ messages = SnsPayloads(RecordsOf(envelope))
                            \o SqsPayloads(RecordsOf(envelope))
           /\ mpc = "callable_" => completed = 0
           /\ mpc = "done"
                 => \/ moutcome = "returned" /\ completed = 1
                    \/ moutcome = "RuntimeError" /\ completed = 0

\* C10 witness: a batched call with no message at all invoked the handler
\* once, with the empty sequence
C10_Witness ==
    /\ mpc = "done"
    /\ batched
    /\ messages = << >>
    /\ handledBatch = << << >> >>
    /\ moutcome = "returned"

\* --------------------------------------------------- message contract (C11)

\* the record carries a known tag and its payload does not decode as JSON or
\* does not satisfy the message schema
BadPayload(schema, r) ==
    \/ IsSns(r) /\ (~json_loads(r.Message).ok
                    \/ ~is_valid(schema, json_loads(r.Message).value))
    \/ IsSqs(r) /\ (~json_loads(r.body).ok
                    \/ ~is_valid(schema, json_loads(r.body).value))

\* C11: if any record with a known tag has a payload that cannot be decoded
\* or that violates the message schema, the entry point raises ContractError
\* and the handler is invoked for no message of the event, in per-message
\* and in batched mode, also for valid messages preceding the bad record.
C11_BadPayloadRejectsWholeEvent ==
    (mpc # "idle"
        /\ \E i \in 1..Len(RecordsOf(envelope)) :
              BadPayload(messageSchema, RecordsOf(envelope)[i]))
        => /\ mpc = "done"
           /\ moutcome = "ContractError"
           /\ handledOne = << >>
           /\ handledBatch = << >>
           /\ completed = 0

\* C11 witness: two valid messages precede a record whose payload violates
\* the schema, and the call ended in ContractError
C11_Witness ==
    /\ mpc = "done"
    /\ Len(RecordsOf(envelope)) = 3
    /\ ~BadPayload(messageSchema, envelope.Records[1])
    /\ IsSqs(envelope.Records[1])
    /\ ~BadPayload(messageSchema, envelope.Records[2])
    /\ IsSqs(envelope.Records[2])
    /\ IsSqs(envelope.Records[3])
    /\ json_loads(envelope.Records[3].body).ok
    /\ BadPayload(messageSchema, envelope.Records[3])
    /\ moutcome = "ContractError"
    /\ handledOne = << >>

\* ------------------------------------------------ service declarations (C12)

\* the step declared an entity into dict: a name already there fails and
\* leaves dict as it is, a new name is appended with the entity given
DeclaredInto(dict, dictAfter) ==
    IF Has(dict, lastOp'.name)
    THEN lastOp'.raised = "ValueError" /\ dictAfter = dict
    ELSE /\ lastOp'.raised = ""
         /\ Len(dictAfter) = Len(dict) + 1
         /\ SubSeq(dictAfter, 1, Len(dict)) = dict
         /\ dictAfter[Len(dictAfter)].name = lastOp'.name
         /\ dictAfter[Len(dictAfter)].description = lastOp'.description

\* every name of dict is still there, at its place, with its description
FirstDeclarationStays(dict, dictAfter) ==
    /\ Len(dictAfter) >= Len(dict)
    /\ \A i \in 1..Len(dict) :
          /\ dictAfter[i].name = dict[i].name
          /\ dictAfter[i].description = dict[i].description

\* no name twice in dict
UniqueNames(dict) ==
    \A i, j \in 1..Len(dict) : dict[i].name = dict[j].name => i = j

\* C12: declare_type, declare_function, declare_message and declare_argument
\* each fail when the name is already declared in that collection and then
\* leave the collection unchanged (the first declaration stays the one found
\* by lookup and iteration); uniqueness is per collection, so a name taken in
\* one collection can still be declared in another.
C12_DuplicateDeclarationFails ==
    [][ /\ lastOp'.op = "declare_type" => DeclaredInto(svcTypes, svcTypes')
        /\ lastOp'.op = "declare_function"
              => DeclaredInto(svcFunctions, svcFunctions')
        /\ lastOp'.op = "declare_message"
              => DeclaredInto(svcMessages, svcMessages')
        /\ lastOp'.op = "declare_argument"
              => /\ Has(svcFunctions, lastOp'.owner)
                 /\ DeclaredInto(Lookup(svcFunctions, lastOp'.owner).arguments,
                                 Lookup(svcFunctions', lastOp'.owner).arguments)
        /\ FirstDeclarationStays(svcTypes, svcTypes')
        /\ FirstDeclarationStays(svcFunctions, svcFunctions')
        /\ FirstDeclarationStays(svcMessages, svcMessages')
        /\ \A i \in 1..Len(svcFunctions) :
              FirstDeclarationStays(svcFunctions[i].arguments,
                                    svcFunctions'[i].arguments)
        /\ UniqueNames(svcTypes') /\ UniqueNames(svcFunctions')
        /\ UniqueNames(svcMessages')
      ]_vars

\* C12 witness: a second declaration of a type failed and the first one is
\* still the one looked up, while the same name is also a function and a
\* message
C12_Witness ==
    /\ lastOp.op = "declare_type"
    /\ lastOp.raised = "ValueError"
    /\ lastOp.description = "second"
    /\ Has(svcTypes, lastOp.name)
    /\ Lookup(svcTypes, lastOp.name).description = "first"
    /\ Has(svcFunctions, lastOp.name)
    /\ Has(svcMessages, lastOp.name)

\* ------------------------------------------------------- the resolver (C13)
\* the reference is a pointer into the types section naming a declared type
NamesDeclaredType(reference) ==
    /\ startswith(reference, TypesPrefix)
    /\ Has(svcTypes, SubSeq(reference, Len(TypesPrefix) + 1, Len(reference)))

\* C13: the resolver returns the schema of type T for "#/types/T" with T
\* declared, and fails with the unresolved-reference error for every other
\* reference, returning nothing for it.
C13_OnlyDeclaredTypesResolve ==
    lastOp.op = "resolve" =>
        IF NamesDeclaredType(lastOp.name)
        THEN /\ lastOp.raised = ""
             /\ lastOp.result =
                    Lookup(svcTypes, SubSeq(lastOp.name, Len(TypesPrefix) + 1,
                                            Len(lastOp.name))).schema
        ELSE /\ lastOp.raised = "RefResolutionError"
             /\ lastOp.result = NoDocument

\* ------------------------------------------------- the compiler (C14-C17, C19)
\* the references a schema contains, at any depth
RECURSIVE references(_)
references(schema) ==
    (IF "$ref" \in schema.has THEN {schema.ref} ELSE {})
        \cup UNION { references(schema.anyOf[i]) : i \in 1..Len(schema.anyOf) }
        \cup UNION { references(schema.items[i]) : i \in 1..Len(schema.items) }
        \cup UNION { references(schema.properties[i].schema) :
                         i \in 1..Len(schema.properties) }

\* the schemas of a type or function of the service
SchemasOf(source) ==
    {source.schema, source.return_}
        \cup { source.arguments[i].schema : i \in 1..Len(source.arguments) }

\* the type or function contains a reference to a type the service lacks
RefersToUndeclared(source) ==
    \E schema \in SchemasOf(source) : \E reference \in references(schema) :
        /\ startswith(reference, TypesPrefix)
        /\ SubSeq(reference, Len(TypesPrefix) + 1, Len(reference))
               \notin pkgTypeNames

\* C14: compiling a schema that contains a reference to a type the service
\* does not declare fails; no descriptor is produced for such a reference.
C14_UndeclaredReferenceFails ==
    (lastUnit.unit # "none" /\ RefersToUndeclared(lastUnit.source))
        => lastUnit.raised # ""

\* no member twice
NoDuplicates(s) == \A i, j \in 1..Len(s) : s[i] = s[j] => i = j

\* the schema is an object schema that compiles to a record
IsObject(schema) ==
    schema.has \cap {"const", "enum", "anyOf", "$ref"} = {}
        /\ "type" \in schema.has /\ schema.type = "object"

\* C15: the object schemas at the different positions of one specification
\* get different synthesized names, and the return of a function is named
\* after the path [function-name, "return"].
C15_PositionsHaveDistinctNames ==
    /\ NoDuplicates(typesPreamble)
    /\ NoDuplicates(functionsPreamble)
    /\ (lastUnit.unit = "function" /\ lastUnit.raised = ""
            /\ IsObject(lastUnit.source.return_))
          => lastUnit.value =
                 Name(<< "_" >>
                          \o id_pascal(join(<< lastUnit.source.name,
                                               << "r", "e", "t", "u", "r", "n" >> >>, "-"))
                          \o << "D", "i", "c", "t" >>)

\* the schema is compiled by the enum branch
IsEnum(schema) ==
    "enum" \in schema.has /\ "const" \notin schema.has /\ schema.enum # << >>

\* the values an annotation is a literal of
LiteralValues(annotation) ==
    IF annotation = Name(<< "N", "o", "n", "e" >>) THEN {NoneValue}
    ELSE IF annotation.node = "Subscript"
            /\ annotation.id = typing(<< "L", "i", "t", "e", "r", "a", "l" >>)
    THEN {annotation.value} \cup { annotation.dims[i].value :
                                       i \in 1..Len(annotation.dims) }
    ELSE {}

C17_EnumIsLiteralOfAllValues ==
    (lastUnit.unit = "type" /\ IsEnum(lastUnit.source.schema))
        => /\ lastUnit.raised = ""
           /\ lastUnit.preamble = << >>
           /\ LiteralValues(lastUnit.value) =
                  { lastUnit.source.schema.enum[i] :
                        i \in 1..Len(lastUnit.source.schema.enum) }

\* the shapes the specification lists as recognized
RecognizedShape(schema) ==
    \/ schema.has \cap {"const", "enum", "anyOf", "$ref"} # {}
    \/ /\ "type" \in schema.has
       /\ \/ schema.type \in {"null", "integer", "number", "boolean", "string"}
          \/ schema.type = "array" /\ "items" \in schema.has
          \/ schema.type = "object" /\ "properties" \in schema.has

ReachesType(schema) ==
    /\ schema.has \cap {"const", "anyOf", "$ref"} = {}
    /\ ~ IsEnum(schema)
    /\ "type" \in schema.has

\* the schema reaches the raise at the end of _annotate_schema
Unsupported(schema) ==
    /\ schema.has \cap {"const", "anyOf", "$ref"} = {}
    /\ ~ IsEnum(schema)
    /\ \/ "type" \notin schema.has
       \/ schema.type \notin {"null", "integer", "number", "boolean", "string",
                              "array", "object"}

ValidateReturnCalled == fpc = "done" /\ ftrace = << >>

\* C18: validate_return for a function without Return considers every value
\* invalid: it raises ContractError for any value given.
C18_NoReturnEveryValueInvalid ==
    (ValidateReturnCalled /\ function.return_ = NoReturn)
        => foutcome = "ContractError"

\* ------------------------------------------------------- hook scopes (C20)
\* C20: scopes nest as a stack: entering a scope makes its hook the innermost
\* of the chain, leaving it restores the scopes as they were before it was
\* entered, and current() returns the hook of the innermost open scope of
\* the chain, failing with NoActiveHook when the chain has no scope open.
C20_CurrentIsInnermostOpenScope ==
    [][ /\ \A c \in Chains :
              /\ Len(stacks'[c]) > Len(stacks[c])
                    => stacks'[c] = Append(stacks[c], hookOp'.hook)
              /\ Len(stacks'[c]) < Len(stacks[c])
                    => /\ stacks[c] = Append(stacks'[c], hookOp'.hook)
                       /\ hookOp'.op = "exit"
        /\ hookOp'.op = "current"
              => /\ UNCHANGED stacks
                 /\ IF stacks[hookOp'.chain] = << >>
                    THEN /\ hookOp'.raised = "NoActiveHook"
                         /\ hookOp'.result = ""
                    ELSE /\ hookOp'.raised = ""
                         /\ hookOp'.result =
                                stacks[hookOp'.chain]
                                      [Len(stacks[hookOp'.chain])]
      ]_vars

\* C20 witness: with the scope of B open inside the scope of A, current()
\* returned B
C20_Witness ==
    /\ hookOp.op = "current"
    /\ stacks[hookOp.chain] = << "A", "B" >>
    /\ hookOp.result = "B"

\* ------------------------------------------------------ call routing (C21)
\* a call was just made in a chain whose innermost hook is hook
CallMade(hook) ==
    /\ lastCall' # lastCall
    /\ lastCall'.op = "call"
    /\ stacks[lastCall'.chain] # << >>
    /\ hook = stacks[lastCall'.chain][Len(stacks[lastCall'.chain])]

Activated(chain) == { stacks[chain][i] : i \in 1..Len(stacks[chain]) }

PropertyNames(schema) ==
    IF "properties" \in schema.has
    THEN { schema.properties[i].field : i \in 1..Len(schema.properties) }
    ELSE {}
RequiredNames(schema) ==
    IF "required" \in schema.has
    THEN { schema.required[i] : i \in 1..Len(schema.required) }
    ELSE {}
\* every property of the schema compiles on its own
PropertiesCompile(type_) ==
    \A i \in 1..Len(type_.schema.properties) :
        annotate_schema(type_.schema.properties[i].schema, "types",
                        << type_.name, type_.schema.properties[i].field >>)
            .raised = ""
\* the names of the fields of a field map
FieldsOf(statement) == { entry.field : entry \in statement.fields }

\* C23: compiling an object schema puts every property in exactly one of the
\* two field maps: a property named in "required" goes to the required map,
\* every other property to the optional map, for every required list,
\* including one that names a field absent from properties.
C23_PropertiesPartitionedByRequired ==
    (lastUnit.unit = "type" /\ IsObject(lastUnit.source.schema)
         /\ PropertiesCompile(lastUnit.source))
        => /\ lastUnit.raised = ""
           /\ LET n == Len(lastUnit.preamble)
                  schema == lastUnit.source.schema
              IN  /\ n >= 3
                  /\ lastUnit.preamble[n - 2].total
                  /\ ~ lastUnit.preamble[n - 1].total
                  /\ FieldsOf(lastUnit.preamble[n - 2]) =
                         PropertyNames(schema) \cap RequiredNames(schema)
                  /\ FieldsOf(lastUnit.preamble[n - 1]) =
                         PropertyNames(schema) \ RequiredNames(schema)

\* ------------------------------------- termination of compilation (C24)
\* the nesting depth of a schema document: a schema with no subschema has
\* depth 1
RECURSIVE nesting(_)
nesting(schema) ==
    LET inner == schema.anyOf \o schema.items
                     \o [i \in 1..Len(schema.properties) |->
                            schema.properties[i].schema]
        depths == { nesting(inner[i]) : i \in 1..Len(inner) }
    IN  1 + (IF depths = {} THEN 0
             ELSE CHOOSE d \in depths : \A e \in depths : e <= d)

\* C24: compilation terminates, also when types refer to themselves or to
\* each other: the calls of _annotate_schema for a type nest no deeper than
\* its schema does, a reference compiles to the name of the type referred to
\* with nothing added to the preamble, and the package always ends complete
\* or with an error.
C24_CompilationTerminates ==
    /\ [](lastUnit.unit = "type" =>
            LET schema == lastUnit.source.schema
            IN  /\ frames(schema, lastUnit.source, MaxFrames)
                       <= nesting(schema)
                /\ frames(schema, lastUnit.source, MaxFrames) < MaxFrames
                /\ ("$ref" \in schema.has
                        /\ schema.has \cap {"const", "enum", "anyOf"} = {}
                        /\ startswith(schema.ref, TypesPrefix))
                      => /\ lastUnit.raised = ""
                         /\ lastUnit.preamble = << >>
                         /\ lastUnit.value =
                                Constant(id_pascal(
                                    SubSeq(schema.ref, Len(TypesPrefix) + 1,
                                           Len(schema.ref)))))
    /\ <>(pkgPc \in {"done", "failed"})

\* C24 witness: the type a, whose schema is a reference to a itself, was
\* compiled to the name A and the package is complete
C24_Witness ==
    /\ pkgPc = "done"
    /\ \E type_ \in PkgTypes :
           /\ type_.name = << "a" >>
           /\ type_.schema = Ref(TypesPrefix \o << "a" >>)
           /\ lastUnit = Unit("type", type_, "", << >>,
                              Constant(<< "A" >>), << >>)

\* ------------------------------------ references that never resolve (C25)
\* the schema of the type is nothing but a reference to the type itself
BareSelfReference(type_) ==
    /\ "$ref" \in type_.schema.has
    /\ type_.schema.has \cap {"const", "enum", "anyOf"} = {}
    /\ type_.schema.ref = TypesPrefix \o type_.name

\* C25: a chain of references that never reaches a schema that is not a
\* reference, such as a type whose schema is a reference to itself, is
\* reported as an error when the specification is compiled; it is not
\* accepted silently.
C25_SelfReferenceIsCompileError ==
    (lastUnit.unit = "type" /\ BareSelfReference(lastUnit.source))
        => lastUnit.raised # ""

\* ------------------------------------------------- Messenger.send (C26)
\* C26: Messenger.send validates the message before it consults the current
\* hook: an invalid message raises ContractError and nothing is handed to
\* any hook, whether or not a hook is active; a valid message is handed,
\* under the declared name of the message, exactly once to the send
\* operation of the innermost active hook.
C26_SendValidatesBeforeHook ==
    [][(lastCall' # lastCall /\ lastCall'.op = "send") =>
         LET chain == lastCall'.chain
             message == lastCall'.payload
         IN  /\ lastCall'.name = MessageName
             /\ ~ is_valid(messageSchema, message) =>
                   /\ lastCall'.raised = "ContractError"
                   /\ lastCall'.invoked = << >>
             /\ (is_valid(messageSchema, message) /\ stacks[chain] # << >>) =>
                   /\ lastCall'.raised = ""
                   /\ lastCall'.invoked =
                          << Invocation("send",
                                        stacks[chain][Len(stacks[chain])],
                                        MessageName, "", message) >>]_vars

\* C26 witness: with the scope of B open inside the scope of A, a message
\* that is not a string was sent: ContractError, and no hook was handed it
C26_Witness ==
    /\ stacks["chain1"] = << "A", "B" >>
    /\ lastCall = Dispatched("send", "chain1", MessageName, Num("100"),
                             << >>, NoResult, "ContractError")
====
